---- MODULE Spec2Model ----
(***************************************************************************)
(* Meta Pixel Calculator API (src/src/index.js, second listing, lines      *)
(* 318-853): the text measurement and truncation analysis (analyzeText),  *)
(* the single and batch endpoints that call it, and the WordPress fetch    *)
(* of /api/GetWebUrls.                                                     *)
(*                                                                         *)
(* Widths are fractional pixels in the code (canvas measureText).  The     *)
(* model keeps them as integers in units of 1/Sub pixel, so that rounding  *)
(* and the comparisons against whole-pixel budgets are exact.              *)
(* A text is a sequence of one-character strings.                          *)
(***************************************************************************)
EXTENDS Integers, Sequences, FiniteSets, TLC

VARIABLES op, out, calls, table, heap, task, probe, web

vars == <<op, out, calls, table, heap, task, probe, web>>

\* The variables of the endpoints and of analyzeText taken as one step, and
\* those of analyzeText taken statement by statement.
apiVars == <<op, out, calls>>

stepVars == <<table, heap, task, probe>>

\* The /api/GetWebUrls request in progress is in web.

(***************************************************************************)
(* Bounds of the model.                                                    *)
(***************************************************************************)
MaxLen == 3

MaxItems == 2

NumProcs == 2

(***************************************************************************)
(* Resolution of a measured width: sub-pixel units per pixel.              *)
(***************************************************************************)
Sub == 4

(***************************************************************************)
(* The glyphs a text is made of.  "z" is a zero-width character (such as   *)
(* U+200B), "." is the character the ellipsis marker is made of and " "    *)
(* is the space, the whitespace that trim() removes.                       *)
(***************************************************************************)
Glyphs == {"W", "n", "m", "i", ".", "z", "H", " "}

RECURSIVE SeqsUpTo(_)
SeqsUpTo(n) ==
  IF n = 0 THEN {<<>>}
  ELSE LET shorter == SeqsUpTo(n - 1)
       IN  shorter \cup {Append(s, c) : s \in {t \in shorter : Len(t) = n - 1}, c \in Glyphs}

Repeat(c, n) == [k \in 1..n |-> c]

\* Texts of some thirty characters, at which the double-precision quotients
\* of lines 414-415 come out below a whole number: 960 px in 29 characters
\* and 480 px in 29 characters as a description, 400 px in 34 characters as
\* a title.
LongTexts ==
  {<<"W", "W", "i">> \o Repeat("z", 26),
   <<"n", "n">> \o Repeat("i", 10) \o Repeat("z", 17),
   <<"n">> \o Repeat("i", 14) \o Repeat(".", 4) \o Repeat("z", 15)}

Texts == SeqsUpTo(MaxLen) \cup LongTexts

Types == {"title", "description"}

(***************************************************************************)
(* META_SETTINGS: the display profile of each field kind.                  *)
(***************************************************************************)
META_SETTINGS ==
  [title |-> [fontFamily |-> "Arial", fontSize |-> 19, maxPixels |-> 600,
              visualFontSize |-> 19],
   description |-> [fontFamily |-> "Arial", fontSize |-> 13, maxPixels |-> 960,
                    minPixels |-> 430]]

(***************************************************************************)
(* The canvas: createContext sets the font of a fresh context, and         *)
(* measureText returns the advance width of the text in that font.  The    *)
(* glyph metrics stand for the font environment of the deployment: one     *)
(* advance per glyph and font size, in 1/Sub pixel.                        *)
(***************************************************************************)
GlyphAdvance(fontSize, c) ==
  IF fontSize = 19
  THEN CASE c = "W" -> 1200   \* 300 px
         [] c = "n" -> 1180   \* 295 px
         [] c = "m" -> 1201   \* 300.25 px
         [] c = "i" -> 24     \* 6 px
         [] c = "." -> 21     \* 5.25 px
         [] c = "z" -> 0
         [] c = "H" -> 2401   \* 600.25 px
         [] c = " " -> 21     \* 5.25 px
  ELSE CASE c = "W" -> 1910   \* 477.5 px
         [] c = "n" -> 860    \* 215 px
         [] c = "m" -> 859    \* 214.75 px
         [] c = "i" -> 20     \* 5 px
         [] c = "." -> 14     \* 3.5 px
         [] c = "z" -> 0
         [] c = "H" -> 3841   \* 960.25 px
         [] c = " " -> 14     \* 3.5 px

createContext(fontSize, fontFamily) ==
  [fontSize |-> fontSize, fontFamily |-> fontFamily]

RECURSIVE measureText(_, _)
measureText(ctx, text) ==
  IF text = <<>> THEN 0
  ELSE measureText(ctx, SubSeq(text, 1, Len(text) - 1))
         + GlyphAdvance(ctx.fontSize, text[Len(text)])

measureTextWidth(text, fontSize, fontFamily) ==
  measureText(createContext(fontSize, fontFamily), text)

(***************************************************************************)
(* JavaScript numbers that need not be finite: recommendedMaxChars is the  *)
(* floor of a quotient whose divisor can be 0 or NaN.                      *)
(***************************************************************************)
Finite(n) == [kind |-> "finite", n |-> n]

NaN == [kind |-> "NaN", n |-> 0]

Infinity == [kind |-> "Infinity", n |-> 0]

(***************************************************************************)
(* Math.round of a non-negative width given in 1/Sub pixel: the nearest    *)
(* integer number of pixels, a half rounding up.                           *)
(***************************************************************************)
MathRound(w) == (2 * w + Sub) \div (2 * Sub)

(***************************************************************************)
(* analyzeText, lines 391-433.  pixelWidth is the unrounded measured       *)
(* width throughout; only the returned field is rounded.                   *)
(***************************************************************************)
EllipsisReserve == 5

Ellipsis == <<".", ".", ".">>

IsTruncated(pixelWidth, settings) == pixelWidth > settings.maxPixels * Sub

\* Line 404 with the reserve added to the budget instead of taken from it.
ReducedBudget_Added(settings) == (settings.maxPixels + EllipsisReserve) * Sub

ReducedBudget(settings) == (settings.maxPixels - EllipsisReserve) * Sub

slice(text, from, to) == SubSeq(text, from + 1, IF to > Len(text) THEN Len(text) ELSE to)

\* The while loop of lines 401-409 leaving already at a slice as wide as
\* the reduced budget.
RECURSIVE TruncationScan_Geq(_, _, _, _)
TruncationScan_Geq(ctx, text, settings, i) ==
  IF i < Len(text)
  THEN IF measureText(ctx, slice(text, 0, i + 1)) >= ReducedBudget(settings)
       THEN i
       ELSE TruncationScan_Geq(ctx, text, settings, i + 1)
  ELSE i

\* The while loop of lines 401-409, entered with i = 0: the index at which
\* the loop is left.
RECURSIVE TruncationScan(_, _, _, _)
TruncationScan(ctx, text, settings, i) ==
  IF i < Len(text)
  THEN IF measureText(ctx, slice(text, 0, i + 1)) > ReducedBudget(settings)
       THEN i
       ELSE TruncationScan(ctx, text, settings, i + 1)
  ELSE i

\* Line 410 keeping the slice that was just found too wide.
TruncatedText_OffByOne(text, i) == slice(text, 0, i + 1) \o Ellipsis

TruncatedText(text, i) == slice(text, 0, i) \o Ellipsis

\* Lines 396-411 and 424 with both guards on isTruncated dropped.
ReturnedText_Unguarded(text, isTruncated, settings) ==
  TruncatedText(text,
    TruncationScan(createContext(settings.fontSize, settings.fontFamily),
                   text, settings, 0))

\* Lines 396-411 and 424: the truncatedText field of the result.
ReturnedText(text, isTruncated, settings) ==
  LET truncatedText ==
        IF isTruncated
        THEN TruncatedText(text,
               TruncationScan(createContext(settings.fontSize, settings.fontFamily),
                              text, settings, 0))
        ELSE text
  IN  IF isTruncated THEN truncatedText ELSE text

\* Lines 414-415 computed from the rounded width.
RecommendedChars_Rounded(pixelWidth, length, settings) ==
  IF length = 0
  THEN IF pixelWidth = 0 THEN NaN ELSE Finite(0)
  ELSE IF MathRound(pixelWidth) = 0 THEN Infinity
       ELSE Finite((settings.maxPixels * length) \div MathRound(pixelWidth))

\* Double-precision arithmetic, lines 414-415.  A double has 53 significant
\* bits and a quotient is rounded to the nearest double.  Exponent(a, b) is
\* the e with 2^e <= a / b < 2^(e + 1).
RECURSIVE ExponentUp(_, _, _)
ExponentUp(a, b, e) == IF 2^(e + 1) * b <= a THEN ExponentUp(a, b, e + 1) ELSE e

RECURSIVE ExponentDown(_, _, _)
ExponentDown(a, b, n) == IF a * 2^n < b THEN ExponentDown(a, b, n + 1) ELSE n

Exponent(a, b) == IF a >= b THEN ExponentUp(a, b, 0) ELSE 0 - ExponentDown(a, b, 1)

\* 2^k modulo m.
RECURSIVE PowerOfTwoMod(_, _)
PowerOfTwoMod(k, m) == IF k = 0 THEN 1 % m ELSE (2 * PowerOfTwoMod(k - 1, m)) % m

\* Line 415 for a quotient maxPixels / (pixelWidth / length) that is the
\* whole number q in exact arithmetic.  avgCharWidth = pixelWidth / length
\* is rounded to 53 bits: rest / length is the part of the last bit that is
\* cut off.  Rounded down or exact, maxPixels / avgCharWidth is q or just
\* above and the floor is q.  Rounded up, maxPixels / avgCharWidth is below
\* q by q * (length - rest) / length last bits of avgCharWidth, and is
\* rounded to q only if that is at most half the distance from q to the
\* double before it; otherwise the floor is q - 1.
FloorOfWholeQuotient(q, pixelWidth, length) ==
  LET e == Exponent(pixelWidth, Sub * length)
      rest == ((pixelWidth % length) * PowerOfTwoMod(50 - e, length)) % length
      f == Exponent(q, 1)
      gap == IF 2^f = q THEN 16 ELSE 8
      below == gap * q * (length - rest) * (IF e >= 0 THEN 2^e ELSE 1)
      half == 2^f * pixelWidth * (IF e >= 0 THEN 1 ELSE 2^(0 - e))
  IN  IF 2 * rest <= length \/ below <= half THEN q ELSE q - 1

\* Lines 414-415: Math.floor(maxPixels / (pixelWidth / text.length)), the
\* two divisions in double precision.  A quotient that is no whole number
\* is further from one than the rounding can reach.
RecommendedChars(pixelWidth, length, settings) ==
  IF length = 0
  THEN IF pixelWidth = 0 THEN NaN ELSE Finite(0)
  ELSE IF pixelWidth = 0 THEN Infinity
       ELSE LET exact == settings.maxPixels * Sub * length
            IN  IF exact % pixelWidth # 0
                THEN Finite(exact \div pixelWidth)
                ELSE Finite(FloorOfWholeQuotient(exact \div pixelWidth,
                                                 pixelWidth, length))

\* Line 418 with the comparison turned round.
IsTooShort_Reversed(type, pixelWidth, settings) ==
  type = "description" /\ pixelWidth > settings.minPixels * Sub

IsTooShort(type, pixelWidth, settings) ==
  type = "description" /\ pixelWidth < settings.minPixels * Sub

\* Line 425 without the minimum-width condition.
IsOptimal_IgnoresTooShort(type, isTruncated, isTooShort) == ~isTruncated

IsOptimal(type, isTruncated, isTooShort) ==
  ~isTruncated /\ (type # "description" \/ ~isTooShort)

\* Lines 428-431 spreading only isTooShort.
DescriptionFields_OnlyTooShort(type, settings, isTooShort) ==
  IF type = "description" THEN [isTooShort |-> isTooShort] ELSE <<>>

\* Lines 428-431: the fields only a description result has.
DescriptionFields(type, settings, isTooShort) ==
  IF type = "description"
  THEN [minPixels |-> settings.minPixels, isTooShort |-> isTooShort]
  ELSE <<>>

analyzeText(text, type) ==
  LET settings == META_SETTINGS[type]
      pixelWidth == measureTextWidth(text, settings.fontSize, settings.fontFamily)
      isTruncated == IsTruncated(pixelWidth, settings)
      isTooShort == IsTooShort(type, pixelWidth, settings)
      common ==
        [pixelWidth |-> MathRound(pixelWidth),
         characterCount |-> Len(text),
         isTruncated |-> isTruncated,
         truncatedText |-> ReturnedText(text, isTruncated, settings),
         isOptimal |-> IsOptimal(type, isTruncated, isTooShort),
         recommendedMaxChars |-> RecommendedChars(pixelWidth, Len(text), settings),
         maxPixels |-> settings.maxPixels]
  IN  common @@ DescriptionFields(type, settings, isTooShort)

(***************************************************************************)
(* The state: the operation last performed, its outcome, and the           *)
(* arguments of the calls of analyzeText made during it.                   *)
(***************************************************************************)
NoOp == [kind |-> "none"]

Call(text, type) == [text |-> text, type |-> type]

Procs == 1..NumProcs

Idle == [pc |-> "idle"]

NoContext == [fontSize |-> 0, fontFamily |-> "none"]

Init ==
  /\ op = NoOp
  /\ out = NoOp
  /\ calls = {}
  /\ table = META_SETTINGS
  /\ heap = [id \in Procs |-> NoContext]
  /\ task = [p \in Procs |-> Idle]
  /\ probe = NoOp
  /\ web = Idle

\* A call of analyzeText.  canvasOk says whether the canvas could be
\* created and measured with; if not, the call throws.
CallAnalyzeText ==
  /\ op = NoOp
  /\ \E text \in Texts, type \in Types, canvasOk \in BOOLEAN :
       /\ op' = [kind |-> "analyzeText", text |-> text, type |-> type,
                 canvasOk |-> canvasOk]
       /\ out' = IF canvasOk
                 THEN [kind |-> "return", value |-> analyzeText(text, type)]
                 ELSE [kind |-> "throw"]
       /\ calls' = {Call(text, type)}
  /\ UNCHANGED <<stepVars, web>>

(***************************************************************************)
(* POST /api/analyze/batch, lines 538-643.                                 *)
(*                                                                         *)
(* An item of the request is an object with an optional id, title and      *)
(* description, or something that is not an object.  A field is absent or  *)
(* a text; JavaScript takes an absent field and the empty text as false.   *)
(***************************************************************************)
Absent == [present |-> FALSE, text |-> <<>>]

Field(text) == [present |-> TRUE, text |-> text]

Truthy(field) == field.present /\ field.text # <<>>

Ids == {"undefined", "0", "a1"}

IdOrNull(id) == IF id \in {"undefined", "0"} THEN "null" ELSE id

ItemTitles == {Absent, Field(<<"i">>), Field(<<"W", "m">>), Field(<<" ">>)}

ItemDescriptions == {Absent, Field(<<"n", "n">>)}

Items ==
  [kind : {"object"}, id : Ids, title : ItemTitles, description : ItemDescriptions]
    \cup {[kind |-> "scalar", id |-> "undefined", title |-> Absent,
           description |-> Absent]}

RECURSIVE ItemSeqsUpTo(_)
ItemSeqsUpTo(n) ==
  IF n = 0 THEN {<<>>}
  ELSE LET shorter == ItemSeqsUpTo(n - 1)
       IN  shorter \cup {Append(s, it) : s \in {t \in shorter : Len(t) = n - 1}, it \in Items}

\* The shapes of a request body the handler tells apart: {items: [...]},
\* [...], {key: [...]}, {key: {items: [...]}}, one item given as the body
\* itself, an object holding none of these, a body that is no object (a
\* number, a boolean, a string that is no JSON), a string that is the JSON
\* of {items: [...]}, and no body at all (req.body undefined, as Express 5
\* leaves it when no parser took the body, or null).
Bodies ==
  {[shape |-> sh, items |-> its] :
     sh \in {"items", "array", "keyArray", "keyItems"}, its \in ItemSeqsUpTo(MaxItems)}
    \cup {[shape |-> "single", items |-> <<it>>] :
            it \in {x \in Items : x.kind = "object"}}
    \cup {[shape |-> "jsonString", items |-> its] : its \in ItemSeqsUpTo(1)}
    \cup {[shape |-> sh, items |-> <<>>] : sh \in {"empty", "scalar", "undefined"}}

\* Lines 341-358: the middleware before the handler replaces a body that is
\* a string by what JSON.parse makes of it, and leaves any other body, and
\* a string that does not parse, as it is.
ParseStringBody(body) ==
  IF body.shape = "jsonString" THEN [shape |-> "items", items |-> body.items]
  ELSE body

BadRequest(message) == [status |-> 400, error |-> message]

\* Lines 544-602: the items the handler finds in the body, or the response
\* it rejects the request with.
ExtractItems(body) ==
  IF body.shape \in {"items", "array", "keyArray", "keyItems"}
  THEN IF Len(body.items) = 0
       THEN [found |-> FALSE,
             response |-> BadRequest("No items to analyze found in request")]
       ELSE [found |-> TRUE, items |-> body.items]
  ELSE IF body.shape \in {"single", "empty"}
  THEN IF body.shape = "single"
            /\ (Truthy(body.items[1].title) \/ Truthy(body.items[1].description))
       THEN [found |-> TRUE, items |-> body.items]
       ELSE [found |-> FALSE,
             response |-> BadRequest("Could not find a valid items array in the request")]
  ELSE [found |-> FALSE, response |-> BadRequest("Invalid request format")]

\* Whether the callback of items.map calls analyzeText for this item.
Analyzes(item) ==
  item.kind = "object" /\ (Truthy(item.title) \/ Truthy(item.description))

\* Lines 605-627: the callback of items.map, for an item whose analyses
\* do not throw.
ItemResult(item) ==
  IF item.kind # "object"
  THEN [error |-> "Invalid item format"]
  ELSE [id |-> IdOrNull(item.id)]
         @@ (IF Truthy(item.title)
             THEN [title |-> analyzeText(item.title.text, "title")]
             ELSE <<>>)
         @@ (IF Truthy(item.description)
             THEN [description |-> analyzeText(item.description.text, "description")]
             ELSE <<>>)
         @@ (IF ~Truthy(item.title) /\ ~Truthy(item.description)
             THEN [error |-> "Item must contain either a title or description"]
             ELSE <<>>)

\* Lines 613-620: the calls of analyzeText the callback makes for the item
\* at position k, in the order in which it makes them.
ItemCalls(item, k) ==
  IF item.kind # "object" THEN <<>>
  ELSE (IF Truthy(item.title)
        THEN <<[call |-> Call(item.title.text, "title"), item |-> k]>> ELSE <<>>)
         \o (IF Truthy(item.description)
             THEN <<[call |-> Call(item.description.text, "description"), item |-> k]>>
             ELSE <<>>)

\* Lines 605-627: the calls of analyzeText that items.map makes, item after
\* item from position k on.
RECURSIVE CallsFrom(_, _)
CallsFrom(items, k) ==
  IF k > Len(items) THEN <<>>
  ELSE ItemCalls(items[k], k) \o CallsFrom(items, k + 1)

\* The calls of analyzeText of a batch request whose analyses all return:
\* none when the handler finds no items.
BatchCalls(body) ==
  LET ex == IF body.shape = "undefined" THEN [found |-> FALSE]
            ELSE ExtractItems(ParseStringBody(body))
  IN  IF ex.found THEN CallsFrom(ex.items, 1) ELSE <<>>

\* The calls made when the call number failAt throws (0: none does).
CallsMade(all, failAt) ==
  {all[n].call : n \in 1..(IF failAt = 0 THEN Len(all) ELSE failAt)}

\* Lines 605-633 with the results collected last item first.
BatchResponse_Reversed(body, failAt) ==
  IF body.shape = "undefined" \/ failAt # 0
  THEN [status |-> 500, error |-> "Batch processing failed"]
  ELSE LET ex == ExtractItems(ParseStringBody(body))
       IN  IF ~ex.found THEN ex.response
           ELSE [status |-> 200,
                 items |-> [k \in 1..Len(ex.items) |->
                              ItemResult(ex.items[Len(ex.items) + 1 - k])],
                 count |-> Len(ex.items)]

\* Lines 341-358 and 539-642: the response.  Object.keys(req.body) of line
\* 542 throws when there is no body, and the call number failAt of
\* analyzeText throws because the canvas fails (0: none does); either
\* exception is caught by the handler's catch, which answers 500.
BatchResponse(body, failAt) ==
  IF body.shape = "undefined" \/ failAt # 0
  THEN [status |-> 500, error |-> "Batch processing failed"]
  ELSE LET ex == ExtractItems(ParseStringBody(body))
       IN  IF ~ex.found THEN ex.response
           ELSE [status |-> 200,
                 items |-> [k \in 1..Len(ex.items) |-> ItemResult(ex.items[k])],
                 count |-> Len(ex.items)]

PostBatch ==
  /\ op = NoOp
  /\ \E body \in Bodies :
       \E failAt \in 0..Len(BatchCalls(body)) :
         /\ op' = [kind |-> "batch", body |-> body, failAt |-> failAt]
         /\ out' = [kind |-> "response", value |-> BatchResponse(body, failAt)]
         /\ calls' = CallsMade(BatchCalls(body), failAt)
  /\ UNCHANGED <<stepVars, web>>

(***************************************************************************)
(* GET or POST /api/analyze, lines 500-535.                                *)
(*                                                                         *)
(* A request has a method, query parameters and a body; title and          *)
(* description may each be given in the query, in the body, in both or in  *)
(* neither.  The fields given are strings.  bodyParsed is false when no    *)
(* parser took the body and req.body is left undefined (Express 5).        *)
(***************************************************************************)
IsSpace(c) == c = " "

\* String.prototype.trim, as applied by the validator's sanitizer.
RECURSIVE TrimStart(_)
TrimStart(text) ==
  IF text # <<>> /\ IsSpace(Head(text)) THEN TrimStart(Tail(text)) ELSE text

RECURSIVE TrimEnd(_)
TrimEnd(text) ==
  IF text # <<>> /\ IsSpace(text[Len(text)])
  THEN TrimEnd(SubSeq(text, 1, Len(text) - 1))
  ELSE text

Trim(text) == TrimEnd(TrimStart(text))

Methods == {"GET", "POST"}

ParamTitles == {Absent, Field(<<>>), Field(<<" ", "i">>), Field(<<"W", "m">>)}

ParamDescriptions == {Absent, Field(<<" ">>), Field(<<"n", "n", " ">>)}

Params == [title : ParamTitles, description : ParamDescriptions]

NoParams == [title |-> Absent, description |-> Absent]

Requests ==
  {req \in [method : Methods, query : Params, body : Params, bodyParsed : BOOLEAN] :
     ~req.bodyParsed => req.body = NoParams}

\* Lines 500-505: a field that is given must be a string that is not empty
\* once trimmed.  The result is the set of the fields in error.
validateMetaParams(req) ==
  {<<location, name>> \in {"body", "query"} \X {"title", "description"} :
     req[location][name].present /\ Trim(req[location][name].text) = <<>>}

\* The sanitizer writes the trimmed text back to the request.
Sanitized(field) == IF field.present THEN Field(Trim(field.text)) ELSE field

\* Lines 515-516: the field is read from the query for GET and from the
\* body for every other method.
Param(req, name) ==
  Sanitized(IF req.method = "GET" THEN req.query[name] ELSE req.body[name])

\* Lines 515-516: reading req.body.title throws when the method is not GET
\* and req.body is undefined.
BodyMissing(req) == req.method # "GET" /\ ~req.bodyParsed

\* Lines 520-526: the calls of analyzeText of a request, title first; none
\* when the request is rejected before.
AnalyzeCalls(req) ==
  IF validateMetaParams(req) # {} \/ BodyMissing(req) THEN <<>>
  ELSE (IF Truthy(Param(req, "title"))
        THEN <<[call |-> Call(Param(req, "title").text, "title")]>> ELSE <<>>)
         \o (IF Truthy(Param(req, "description"))
             THEN <<[call |-> Call(Param(req, "description").text, "description")]>>
             ELSE <<>>)

\* Lines 518-534: the response object, one key per field that is given.
AnalyzeResult(req) ==
  (IF Truthy(Param(req, "title"))
   THEN [title |-> analyzeText(Param(req, "title").text, "title")] ELSE <<>>)
    @@ (IF Truthy(Param(req, "description"))
        THEN [description |->
                analyzeText(Param(req, "description").text, "description")]
        ELSE <<>>)

\* Lines 513-534 without the check of the validation result.
AnalyzeResponse_SkipsValidation(req, failAt) ==
  IF BodyMissing(req) \/ failAt # 0
  THEN [status |-> 500, error |-> "Internal Server Error"]
  ELSE IF ~Truthy(Param(req, "title")) /\ ~Truthy(Param(req, "description"))
  THEN BadRequest("Please provide either a title or description parameter")
  ELSE [status |-> 200, result |-> AnalyzeResult(req)]

\* Lines 508-535 and the error middleware, lines 840-846, which answers
\* for a handler that throws: at line 515 for want of a body, or in the
\* call number failAt of analyzeText because the canvas fails (0: none).
AnalyzeResponse(req, failAt) ==
  IF validateMetaParams(req) # {}
  THEN [status |-> 400, errors |-> validateMetaParams(req)]
  ELSE IF BodyMissing(req) \/ failAt # 0
  THEN [status |-> 500, error |-> "Internal Server Error"]
  ELSE IF ~Truthy(Param(req, "title")) /\ ~Truthy(Param(req, "description"))
  THEN BadRequest("Please provide either a title or description parameter")
  ELSE [status |-> 200, result |-> AnalyzeResult(req)]

RequestAnalyze ==
  /\ op = NoOp
  /\ \E req \in Requests :
       \E failAt \in 0..Len(AnalyzeCalls(req)) :
         /\ op' = [kind |-> "analyze", req |-> req, failAt |-> failAt]
         /\ out' = [kind |-> "response", value |-> AnalyzeResponse(req, failAt)]
         /\ calls' = CallsMade(AnalyzeCalls(req), failAt)
  /\ UNCHANGED <<stepVars, web>>

\* The call has returned, or the response has been sent.
Done ==
  /\ op # NoOp
  /\ op' = NoOp
  /\ out' = NoOp
  /\ calls' = {}
  /\ UNCHANGED <<stepVars, web>>

Next == CallAnalyzeText \/ PostBatch \/ RequestAnalyze \/ Done

Spec == Init /\ [][Next]_vars

(***************************************************************************)
(* analyzeText statement by statement, lines 361-433, for the analyses of  *)
(* several requests or batch items at once.                                *)
(*                                                                         *)
(* table is META_SETTINGS as the running program holds it.  heap holds the *)
(* canvas contexts that are reachable: createContext makes a new one and   *)
(* sets its font, and a context is gone when the function holding it       *)
(* returns.  task[p] is the position of analysis p in analyzeText with     *)
(* its local variables.  JavaScript runs each call to completion; the      *)
(* steps of the analyses are interleaved here in every order, which        *)
(* includes the orders in which one call ends before the next begins.      *)
(* probe remembers the result of one analysis that has returned and        *)
(* whether an analysis of another input has returned since.                *)
(***************************************************************************)
StepTexts == {<<"n", "W", "i">>, <<"H">>}

\* Lines 362-363 taking the one context of the module instead of a new one.
NewContext_Shared(h) == 1

\* Lines 362-363: createCanvas(1, 1).getContext('2d'), a context no other
\* analysis holds.
NewContext(h) == CHOOSE id \in Procs : h[id] = NoContext /\ \A j \in 1..(id - 1) : h[j] # NoContext

\* analyzeText taking the reserve out of the profile it was given.
TableAfter_ReserveTaken(tbl, type) ==
  [tbl EXCEPT ![type].maxPixels = @ - EllipsisReserve]

\* Lines 392-432: analyzeText reads META_SETTINGS[type] and assigns to none
\* of its fields; the table after a call.
TableAfter(tbl, type) == tbl

\* Lines 391-393 and 386: analyzeText is entered, and measureTextWidth
\* creates its context.
Begin(p) ==
  /\ task[p].pc = "idle"
  /\ \E text \in StepTexts, type \in Types :
       LET settings == table[type]
           id == NewContext(heap)
       IN  /\ heap' = [heap EXCEPT ![id] = createContext(settings.fontSize,
                                                         settings.fontFamily)]
           /\ task' = [task EXCEPT ![p] =
                         [pc |-> "measure", text |-> text, type |-> type,
                          ctx |-> id, pixelWidth |-> 0, isTruncated |-> FALSE,
                          i |-> 0, measured |-> 0]]
  /\ UNCHANGED <<table, probe, apiVars, web>>

\* Lines 387-388 and 395-396: the text is measured with the context, the
\* function returns and the context with it; isTruncated is set.
Measure(p) ==
  /\ task[p].pc = "measure"
  /\ LET t == task[p]
         pixelWidth == measureText(heap[t.ctx], t.text)
         isTruncated == IsTruncated(pixelWidth, table[t.type])
     IN  /\ task' = [task EXCEPT ![p] =
                       [t EXCEPT !.pc = IF isTruncated THEN "createContext" ELSE "result",
                                 !.pixelWidth = pixelWidth,
                                 !.isTruncated = isTruncated,
                                 !.ctx = 0]]
         /\ heap' = [heap EXCEPT ![t.ctx] = NoContext]
  /\ UNCHANGED <<table, probe, apiVars, web>>

\* Lines 399-401: the context of the scan, and i = 0.
ScanContext(p) ==
  /\ task[p].pc = "createContext"
  /\ LET t == task[p]
         settings == table[t.type]
         id == NewContext(heap)
     IN  /\ heap' = [heap EXCEPT ![id] = createContext(settings.fontSize,
                                                       settings.fontFamily)]
         /\ task' = [task EXCEPT ![p] = [t EXCEPT !.pc = "scan", !.ctx = id, !.i = 0]]
  /\ UNCHANGED <<table, probe, apiVars, web>>

\* Lines 402-409 with the i++ of line 408 left out.
ScanStep_NoIncrement(p) ==
  /\ task[p].pc = "scan"
  /\ LET t == task[p]
     IN  IF t.i < Len(t.text)
         THEN LET sliceWidth == measureText(heap[t.ctx], slice(t.text, 0, t.i + 1))
              IN  IF sliceWidth > ReducedBudget(table[t.type])
                  THEN task' = [task EXCEPT ![p] =
                                  [t EXCEPT !.pc = "result", !.measured = @ + 1]]
                  ELSE task' = [task EXCEPT ![p] = [t EXCEPT !.measured = @ + 1]]
         ELSE task' = [task EXCEPT ![p] = [t EXCEPT !.pc = "result"]]
  /\ UNCHANGED <<table, heap, probe, apiVars, web>>

\* Lines 402-409: the test of the while loop and one pass through its body.
ScanStep(p) ==
  /\ task[p].pc = "scan"
  /\ LET t == task[p]
     IN  IF t.i < Len(t.text)
         THEN LET sliceWidth == measureText(heap[t.ctx], slice(t.text, 0, t.i + 1))
              IN  IF sliceWidth > ReducedBudget(table[t.type])
                  THEN task' = [task EXCEPT ![p] =
                                  [t EXCEPT !.pc = "result", !.measured = @ + 1]]
                  ELSE task' = [task EXCEPT ![p] =
                                  [t EXCEPT !.i = @ + 1, !.measured = @ + 1]]
         ELSE task' = [task EXCEPT ![p] = [t EXCEPT !.pc = "result"]]
  /\ UNCHANGED <<table, heap, probe, apiVars, web>>

\* Lines 410-432: the result object; the context of the scan is gone with
\* the call.
Result(p) ==
  /\ task[p].pc = "result"
  /\ LET t == task[p]
         settings == table[t.type]
         isTooShort == IsTooShort(t.type, t.pixelWidth, settings)
         result ==
           [pixelWidth |-> MathRound(t.pixelWidth),
            characterCount |-> Len(t.text),
            isTruncated |-> t.isTruncated,
            truncatedText |-> IF t.isTruncated THEN TruncatedText(t.text, t.i)
                              ELSE t.text,
            isOptimal |-> IsOptimal(t.type, t.isTruncated, isTooShort),
            recommendedMaxChars |-> RecommendedChars(t.pixelWidth, Len(t.text), settings),
            maxPixels |-> settings.maxPixels]
             @@ DescriptionFields(t.type, settings, isTooShort)
     IN  /\ task' = [task EXCEPT ![p] =
                       [pc |-> "done", text |-> t.text, type |-> t.type,
                        result |-> result, measured |-> t.measured, i |-> t.i]]
         /\ heap' = IF t.ctx = 0 THEN heap ELSE [heap EXCEPT ![t.ctx] = NoContext]
         /\ table' = TableAfter(table, t.type)
  /\ UNCHANGED <<probe, apiVars, web>>

\* The caller has the result.
Return(p) ==
  /\ task[p].pc = "done"
  /\ task' = [task EXCEPT ![p] = Idle]
  /\ LET t == task[p]
     IN  \E remember \in BOOLEAN :
           probe' = IF remember
                    THEN [text |-> t.text, type |-> t.type, result |-> t.result,
                          others |-> FALSE]
                    ELSE IF probe # NoOp /\ <<probe.text, probe.type>> # <<t.text, t.type>>
                    THEN [probe EXCEPT !.others = TRUE]
                    ELSE probe
  /\ UNCHANGED <<table, heap, apiVars, web>>

NextSteps ==
  \E p \in Procs :
    Begin(p) \/ Measure(p) \/ ScanContext(p) \/ ScanStep(p) \/ Result(p) \/ Return(p)

SpecSteps == Init /\ [][NextSteps]_vars

(***************************************************************************)
(* GET or POST /api/GetWebUrls, lines 436-497 and 646-782.                 *)
(*                                                                         *)
(* The handler awaits fetchWordPressContent, which awaits one httpsGet per *)
(* content type, one after the other.  httpsGet settles its promise from   *)
(* the events of its request: a response that redirects starts a new       *)
(* httpsGet whose outcome it passes on; 'end' parses what was received;    *)
(* 'error' and 'timeout' of the request reject, before the response and   *)
(* during it.  The timeout is that of a socket left idle, and every        *)
(* arrival of bytes starts it again; every request has its own, and the    *)
(* request of an earlier hop whose connection the server leaves open still *)
(* has it, as it still has its 'error'.  A connection that the server      *)
(* closes once the response has begun gives 'aborted' and 'close' on the   *)
(* response, to which nothing listens, and no 'error' on the request.      *)
(*                                                                         *)
(* phase is "waiting" until the callback of https.request has run,         *)
(* "receiving" once it has run for a response that does not redirect, and  *)
(* "aborted" once that response was cut off.  data says whether a chunk of *)
(* the body has arrived, and tick is the parity of the number of arrivals  *)
(* of bytes on the current connection.                                     *)
(***************************************************************************)
Urls == {"u1", "u2"}

OtherUrl(u) == IF u = "u1" THEN "u2" ELSE "u1"

\* requestData.types: not given, a comma-separated string (here split), or
\* an array.  A name need not be one of typeToEndpoint: any string is gone
\* through, "__proto__" among them.
TypesParams ==
  {[form |-> "absent", names |-> <<>>],
   [form |-> "string", names |-> <<"pages">>],
   [form |-> "string", names |-> <<"posts", "tags">>],
   [form |-> "string", names |-> <<"pages", "pages">>],
   [form |-> "string", names |-> <<"__proto__">>],
   [form |-> "string", names |-> <<"posts", "__proto__">>],
   [form |-> "array", names |-> <<"posts", "pages">>]}

\* Lines 738 and 648: the types fetchWordPressContent goes through.
TypesOf(param) == IF param.form = "absent" THEN <<"posts">> ELSE param.names

\* What a response body turns out to be when 'end' arrives: a JSON array of
\* n items that are objects, a JSON array with a null among its items (of
\* which item.id, line 680, throws), JSON that is no array, or no JSON.
Payloads ==
  {[kind |-> "list", n |-> 0], [kind |-> "list", n |-> 2],
   [kind |-> "nullItem", n |-> 2],
   [kind |-> "notList", n |-> 0], [kind |-> "invalidJSON", n |-> 0]}

\* requestData.url: not given, a string, or a value that is truthy and no
\* string (a number in a JSON body, an array from a repeated parameter).
UrlParams == {"absent", "string", "notString"}

\* Lines 699-703 and 763-769: the entry of a type that was fetched.
Fetched(type, n) == [type |-> type, count |-> n, error |-> "null"]

\* Lines 704-711 and 763-769: the entry of a type whose fetch failed.
Failed(type, why) == [type |-> type, count |-> 0, error |-> why]

\* Line 764: the keys that assigning response.results[type] adds to the
\* plain object; assigning "__proto__" sets the prototype of the object and
\* adds no key.
ResultKeys(results) ==
  {results[k].type : k \in 1..Len(results)} \ {"__proto__"}

\* Lines 755-771: the response of a request whose types were all gone
\* through; results is keyed by type, a later entry replacing an earlier.
Compiled(results) ==
  [status |-> 200, success |-> TRUE,
   results |-> [t \in ResultKeys(results) |->
                  LET last == CHOOSE k \in 1..Len(results) :
                                /\ results[k].type = t
                                /\ \A j \in (k + 1)..Len(results) : results[j].type # t
                  IN  [count |-> results[last].count, error |-> results[last].error]]]

\* Lines 704-711 leaving the loop at the first type that fails.
Settle_StopsAtFailure(w, entry) ==
  LET results == Append(w.results, entry)
  IN  IF w.k = Len(w.types) \/ entry.error # "null"
      THEN [pc |-> "responded", types |-> w.types, returned |-> results,
            response |-> Compiled(results)]
      ELSE [w EXCEPT !.k = @ + 1, !.results = results, !.url = "u1",
                     !.phase = "waiting", !.armed = FALSE,
                     !.data = FALSE, !.tick = FALSE]

\* Lines 651, 675 and 752: the await of the current type's httpsGet is
\* over with this entry; the loop goes on to the next type, or
\* fetchWordPressContent returns its results (kept as returned, with the
\* types asked for) and the handler answers.
Settle(w, entry) ==
  LET results == Append(w.results, entry)
  IN  IF w.k = Len(w.types)
      THEN [pc |-> "responded", types |-> w.types, returned |-> results,
            response |-> Compiled(results)]
      ELSE [w EXCEPT !.k = @ + 1, !.results = results, !.url = "u1",
                     !.phase = "waiting", !.armed = FALSE,
                     !.data = FALSE, !.tick = FALSE]

\* Lines 717-752 and 773-781: the request arrives.  hasData is false when
\* the method is not GET and req.body is undefined: requestData.input (line
\* 723) throws.  Without url the handler answers 400.  With types given as
\* an array, type.toLowerCase (line 666), and with a url that is no string,
\* siteUrl.endsWith (line 669), throws outside the try of the loop.  What
\* is thrown is caught by the handler's catch, which answers 500.
\* Otherwise the first httpsGet is under way.
RequestGetWebUrls ==
  /\ web = Idle
  /\ \E hasData \in BOOLEAN, url \in UrlParams, param \in TypesParams :
       web' = IF hasData /\ url = "absent"
              THEN [pc |-> "responded",
                    response |-> [status |-> 400, success |-> FALSE,
                                  error |-> "Missing required parameter: url"]]
              ELSE IF ~hasData \/ url = "notString" \/ param.form = "array"
              THEN [pc |-> "responded",
                    response |-> [status |-> 500, success |-> FALSE,
                                  error |-> "Failed to fetch WordPress content"]]
              ELSE [pc |-> "fetching", types |-> TypesOf(param), k |-> 1,
                    results |-> <<>>, url |-> "u1", phase |-> "waiting",
                    armed |-> FALSE, data |-> FALSE, tick |-> FALSE]
  /\ UNCHANGED <<apiVars, stepVars>>

\* Lines 457-462: a 3xx response with a location.  httpsGet is called for
\* the location, whatever the number of redirects before; the response is
\* not read, and keepsOpen says whether the server leaves the connection
\* of the redirected request open, idle.
Redirect ==
  /\ web.pc = "fetching" /\ web.phase = "waiting"
  /\ \E keepsOpen \in BOOLEAN :
       web' = [web EXCEPT !.url = OtherUrl(@), !.armed = @ \/ keepsOpen,
                          !.tick = FALSE]
  /\ UNCHANGED <<apiVars, stepVars>>

\* Lines 446 and 453: bytes of the status line or of the headers arrive
\* before the response is complete enough for the callback to run; the
\* idle timer of the socket starts again.
HeaderBytes ==
  /\ web.pc = "fetching" /\ web.phase = "waiting"
  /\ web' = [web EXCEPT !.tick = ~@]
  /\ UNCHANGED <<apiVars, stepVars>>

\* Lines 453-454 and 464-483: the callback runs for a response that does
\* not redirect; data is empty and the listeners of 'data' and 'end' are
\* registered.
Response ==
  /\ web.pc = "fetching" /\ web.phase = "waiting"
  /\ web' = [web EXCEPT !.phase = "receiving", !.tick = ~@]
  /\ UNCHANGED <<apiVars, stepVars>>

\* Lines 464-466: 'data', a chunk of the body is added to data; the idle
\* timer of the socket starts again.
Data ==
  /\ web.pc = "fetching" /\ web.phase = "receiving"
  /\ web' = [web EXCEPT !.data = TRUE, !.tick = ~@]
  /\ UNCHANGED <<apiVars, stepVars>>

\* Lines 468-482 and 678-711: 'end'.  JSON.parse fails (as it does on the
\* empty string, when no chunk arrived), or response.data has no map, or
\* formatting an item throws, or the items are formatted.
End ==
  /\ web.pc = "fetching" /\ web.phase = "receiving"
  /\ \E payload \in Payloads :
       /\ ~web.data => payload.kind = "invalidJSON"
       /\ LET type == web.types[web.k]
          IN  web' = Settle(web,
                       IF payload.kind = "list" THEN Fetched(type, payload.n)
                       ELSE Failed(type, payload.kind))
  /\ UNCHANGED <<apiVars, stepVars>>

\* Lines 485-488: 'error' of the current request: the connection fails or
\* is reset, before the response or in the middle of it.
Error ==
  /\ web.pc = "fetching" /\ web.phase \in {"waiting", "receiving"}
  /\ web' = Settle(web, Failed(web.types[web.k], "error"))
  /\ UNCHANGED <<apiVars, stepVars>>

\* Lines 464-482: the server closes the connection after the headers or in
\* the middle of the body.  The response emits 'aborted' and 'close', for
\* which the code has no listener; there will be no 'end', no 'error' of
\* the request and, the socket being destroyed, no 'timeout'.
Aborted ==
  /\ web.pc = "fetching" /\ web.phase = "receiving"
  /\ web' = [web EXCEPT !.phase = "aborted"]
  /\ UNCHANGED <<apiVars, stepVars>>

\* Lines 490-493: 'timeout' of the request sent to u, its socket having
\* been idle for the time allowed.
Timeout(u) ==
  /\ web.pc = "fetching" /\ web.url = u /\ web.phase \in {"waiting", "receiving"}
  /\ web' = Settle(web, Failed(web.types[web.k], "timeout"))
  /\ UNCHANGED <<apiVars, stepVars>>

\* Lines 490-493 and 459-461: 'timeout' of the request of an earlier hop,
\* whose reject is that of the whole chain.
EarlierTimeout ==
  /\ web.pc = "fetching" /\ web.armed
  /\ web' = Settle(web, Failed(web.types[web.k], "timeout"))
  /\ UNCHANGED <<apiVars, stepVars>>

\* Lines 485-488 and 459-461: 'error' of the request of an earlier hop, the
\* connection it left open being reset; its reject is that of the whole
\* chain, whatever has become of the current hop.
EarlierError ==
  /\ web.pc = "fetching" /\ web.armed
  /\ web' = Settle(web, Failed(web.types[web.k], "error"))
  /\ UNCHANGED <<apiVars, stepVars>>

\* The response has been sent.
Responded ==
  /\ web.pc = "responded"
  /\ web' = Idle
  /\ UNCHANGED <<apiVars, stepVars>>

NextWeb ==
  \/ RequestGetWebUrls
  \/ Redirect
  \/ HeaderBytes
  \/ Response
  \/ Data
  \/ End
  \/ Error
  \/ Aborted
  \/ \E u \in Urls : Timeout(u)
  \/ EarlierTimeout
  \/ EarlierError
  \/ Responded

\* While a request is served, a connection that can still give an event
\* gives one: bytes, an end, an error or a close from the server or, the
\* socket staying idle, its 'timeout'; and the response that is ready is
\* sent.  The server may go on sending bytes for ever, which keeps the
\* timeout from firing.  The timer of a connection left open and idle by
\* an earlier hop fires if the chain is not settled before.  Nothing makes
\* a next request arrive.
SpecWeb ==
  /\ Init
  /\ [][NextWeb]_vars
  /\ WF_vars(web # Idle /\ NextWeb)
  /\ WF_vars(EarlierTimeout)

(***************************************************************************)
(* What the properties speak of: a returned call of analyzeText, its       *)
(* result, the profile it used and the unrounded width of its text.        *)
(***************************************************************************)
Returned == op.kind = "analyzeText" /\ out.kind = "return"

Profile == META_SETTINGS[op.type]

RawWidth == measureTextWidth(op.text, Profile.fontSize, Profile.fontFamily)

\* The part of truncatedText before its last three characters.
Retained == SubSeq(out.value.truncatedText, 1, Len(out.value.truncatedText) - 3)

EndsWithEllipsis ==
  /\ Len(out.value.truncatedText) >= 3
  /\ SubSeq(out.value.truncatedText, Len(out.value.truncatedText) - 2,
            Len(out.value.truncatedText)) = <<".", ".", ".">>

\* C1 as stated: for a non-empty text, isTruncated is true exactly when the
\* returned (rounded) pixelWidth is greater than maxPixels.  Line 395
\* compares the unrounded width, so a width above maxPixels that rounds down
\* to maxPixels is reported truncated with pixelWidth = maxPixels.
C1_TruncatedIffRoundedExceeds ==
  (Returned /\ op.text # <<>>) =>
    (out.value.isTruncated <=> out.value.pixelWidth > Profile.maxPixels)

\* C2: if isTruncated, truncatedText ends with the ellipsis marker and the
\* retained prefix measures at most maxPixels minus the 5-pixel reserve.
C2_RetainedWithinReducedBudget ==
  (Returned /\ out.value.isTruncated) =>
    /\ EndsWithEllipsis
    /\ measureTextWidth(Retained, Profile.fontSize, Profile.fontFamily)
         <= (Profile.maxPixels - 5) * Sub

\* A truncated text whose retained prefix fills the reduced budget exactly.
C2_Witness ==
  /\ Returned
  /\ out.value.isTruncated
  /\ EndsWithEllipsis
  /\ Retained # <<>>
  /\ measureTextWidth(Retained, Profile.fontSize, Profile.fontFamily)
       = (Profile.maxPixels - 5) * Sub

\* C3: if isTruncated is false, truncatedText is exactly the input text.
C3_UntruncatedTextUnchanged ==
  (Returned /\ ~out.value.isTruncated) => out.value.truncatedText = op.text

\* A text of exactly maxPixels, returned as it is.
C3_Witness ==
  /\ Returned
  /\ ~out.value.isTruncated
  /\ RawWidth = Profile.maxPixels * Sub
  /\ out.value.truncatedText = op.text

\* C4: if isTruncated, truncatedText is a prefix of the input of length
\* strictly less than the input's, followed by the ellipsis marker.
C4_StrictPrefixThenEllipsis ==
  (Returned /\ out.value.isTruncated) =>
    \E k \in 0..(Len(op.text) - 1) :
      out.value.truncatedText = SubSeq(op.text, 1, k) \o <<".", ".", ".">>

\* A text barely over maxPixels, cut to all but its last character.
C4_Witness ==
  /\ Returned
  /\ out.value.isTruncated
  /\ Len(op.text) >= 2
  /\ RawWidth <= (Profile.maxPixels + 5) * Sub
  /\ out.value.truncatedText
       = SubSeq(op.text, 1, Len(op.text) - 1) \o <<".", ".", ".">>

\* C5 as stated: if isTruncated, the whole truncatedText, retained prefix
\* and ellipsis marker together, measures less than maxPixels.
C5_PreviewNarrowerThanBudget ==
  (Returned /\ out.value.isTruncated) =>
    measureTextWidth(out.value.truncatedText, Profile.fontSize, Profile.fontFamily)
      < Profile.maxPixels * Sub

\* C6 as stated: for a description, isTooShort is true exactly when the
\* returned (rounded) pixelWidth is less than minPixels.  Line 418 compares
\* the unrounded width, so a width below minPixels that rounds up to
\* minPixels is reported too short with pixelWidth = minPixels.
C6_TooShortIffRoundedBelow ==
  (Returned /\ op.type = "description") =>
    (out.value.isTooShort <=> out.value.pixelWidth < Profile.minPixels)

\* C7: for a description, isOptimal equals (not isTruncated and not
\* isTooShort); for a title, isOptimal equals (not isTruncated), however
\* narrow the text.
C7_OptimalByFieldKind ==
  Returned =>
    IF op.type = "description"
    THEN out.value.isOptimal <=> (~out.value.isTruncated /\ ~out.value.isTooShort)
    ELSE out.value.isOptimal <=> ~out.value.isTruncated

\* A description that is not truncated, is too short and is not optimal.
C7_Witness ==
  /\ Returned
  /\ op.type = "description"
  /\ op.text # <<>>
  /\ ~out.value.isTruncated
  /\ out.value.isTooShort
  /\ ~out.value.isOptimal

\* C8 as stated: for a non-empty text of positive width, recommendedMaxChars
\* is floor(maxPixels / (pixelWidth / characterCount)) with the returned
\* (rounded) pixelWidth.
C8_RecommendedFromRoundedWidth ==
  (Returned /\ op.text # <<>> /\ RawWidth > 0 /\ out.value.pixelWidth > 0) =>
    out.value.recommendedMaxChars
      = Finite((Profile.maxPixels * out.value.characterCount) \div out.value.pixelWidth)

\* C8 amended: for a non-empty text of positive width, recommendedMaxChars is
\* a non-negative integer computed from the unrounded measured width w:
\* when maxPixels * characterCount / w is no whole number it is the floor of
\* that quotient, and when the quotient is a whole number q it is q or, the
\* two divisions being rounded, q - 1.
C8_RecommendedFromRawWidth ==
  (Returned /\ op.text # <<>> /\ RawWidth > 0) =>
    LET n == out.value.recommendedMaxChars.n
        exact == Profile.maxPixels * Sub * out.value.characterCount
    IN  /\ out.value.recommendedMaxChars.kind = "finite"
        /\ n >= 0
        /\ n * RawWidth <= exact
        /\ exact % RawWidth # 0 => exact < (n + 1) * RawWidth
        /\ exact % RawWidth = 0 => exact <= (n + 1) * RawWidth

\* A description of 29 characters that is exactly maxPixels wide: the exact
\* quotient is 29 and the count reported is 28.
C8_Witness ==
  /\ Returned
  /\ op.type = "description"
  /\ Len(op.text) = 29
  /\ RawWidth = Profile.maxPixels * Sub
  /\ out.value.pixelWidth = 960
  /\ out.value.recommendedMaxChars = Finite(28)

\* C9 as stated: given a zero-length text, or a text that measures 0,
\* analyzeText returns (the canvas working) a recommendedMaxChars of 0,
\* never NaN and never an infinite value.
C9_DegenerateInputGivesZero ==
  (op.kind = "analyzeText" /\ op.canvasOk /\ (op.text = <<>> \/ RawWidth = 0)) =>
    /\ out.kind = "return"
    /\ out.value.recommendedMaxChars = Finite(0)

\* The analyses of a batch during which the canvas fails.
BatchItemsFound ==
  op.body.shape # "undefined" /\ ExtractItems(ParseStringBody(op.body)).found

FailedItems ==
  IF op.failAt = 0 THEN {} ELSE {BatchCalls(op.body)[op.failAt].item}

\* C10 as stated: in a batch whose items were found, a failure raised while
\* analyzing one item is recorded in that item's slot, and the response is a
\* success in which every other item has its own result.
C10_FailureStaysInItsSlot ==
  (op.kind = "batch" /\ BatchItemsFound /\ FailedItems # {}) =>
    /\ out.value.status = 200
    /\ Len(out.value.items) = Len(op.body.items)
    /\ \A k \in 1..Len(op.body.items) :
         IF k \in FailedItems
         THEN "error" \in DOMAIN out.value.items[k]
         ELSE out.value.items[k] = ItemResult(op.body.items[k])

(***************************************************************************)
(* The batch endpoint: the items the handler found and the slots of its    *)
(* response.                                                               *)
(***************************************************************************)
BatchGiven == op.kind = "batch" /\ BatchItemsFound

BatchSucceeded == BatchGiven /\ out.value.status = 200

Malformed(item) ==
  item.kind # "object" \/ (~Truthy(item.title) /\ ~Truthy(item.description))

\* C11 as stated: for a batch with a non-empty item sequence the response
\* is a success with one slot per item; slot k carries an error marker
\* exactly when item k is malformed, and the slot of a well-formed item
\* carries the analysis of each field the item supplies.
C11_ErrorMarkerIffMalformed ==
  BatchGiven =>
    /\ out.value.status = 200
    /\ Len(out.value.items) = Len(op.body.items)
    /\ \A k \in 1..Len(op.body.items) :
         LET item == op.body.items[k]
             slot == out.value.items[k]
         IN  /\ ("error" \in DOMAIN slot) <=> Malformed(item)
             /\ ~Malformed(item) =>
                  /\ ("title" \in DOMAIN slot) <=> Truthy(item.title)
                  /\ ("description" \in DOMAIN slot) <=> Truthy(item.description)
                  /\ Truthy(item.title) =>
                       slot.title = analyzeText(item.title.text, "title")
                  /\ Truthy(item.description) =>
                       slot.description
                         = analyzeText(item.description.text, "description")

\* C12: in a successful batch response, slot k is the result of input item k
\* (its id, the analysis of its title and of its description, or its error),
\* and count is the number of input items.
C12_SlotsFollowInputOrder ==
  BatchSucceeded =>
    /\ out.value.count = Len(op.body.items)
    /\ Len(out.value.items) = Len(op.body.items)
    /\ \A k \in 1..Len(op.body.items) :
         LET item == op.body.items[k]
             slot == out.value.items[k]
         IN  IF item.kind # "object"
             THEN slot = [error |-> "Invalid item format"]
             ELSE /\ slot.id = IdOrNull(item.id)
                  /\ ("title" \in DOMAIN slot) <=> Truthy(item.title)
                  /\ ("description" \in DOMAIN slot) <=> Truthy(item.description)
                  /\ Truthy(item.title) =>
                       /\ slot.title.characterCount = Len(item.title.text)
                       /\ slot.title = analyzeText(item.title.text, "title")
                  /\ Truthy(item.description) =>
                       /\ slot.description.characterCount = Len(item.description.text)
                       /\ slot.description
                            = analyzeText(item.description.text, "description")

\* A successful batch of two items of which only the first has a title and
\* only the second a description.
C12_Witness ==
  /\ BatchSucceeded
  /\ Len(op.body.items) = 2
  /\ Truthy(op.body.items[1].title) /\ ~Truthy(op.body.items[1].description)
  /\ ~Truthy(op.body.items[2].title) /\ Truthy(op.body.items[2].description)
  /\ "title" \in DOMAIN out.value.items[1]
  /\ "description" \in DOMAIN out.value.items[2]
  /\ out.value.count = 2

\* C15 as stated: in a successful batch response, the slot of every item
\* that is an object with an id has that id, whatever its value.
C15_SlotCarriesItemId ==
  BatchSucceeded =>
    \A k \in 1..Len(op.body.items) :
      (op.body.items[k].kind = "object" /\ op.body.items[k].id # "undefined") =>
        out.value.items[k].id = op.body.items[k].id

(***************************************************************************)
(* The single-request endpoint and the arguments the analyzer receives.    *)
(***************************************************************************)
\* C13 as stated: whatever the request (single GET, single POST, batch),
\* every text analyzeText is called with is non-empty after trimming.
C13_AnalyzerNeverGetsBlankText ==
  op.kind \in {"analyze", "batch"} => \A c \in calls : Trim(c.text) # <<>>

\* The parameters of the channel the handler reads (the query for GET, the
\* body otherwise), and whether some field of the request fails validation.
Channel == IF op.req.method = "GET" THEN op.req.query ELSE op.req.body

SomeFieldBlank ==
  \E location \in {"query", "body"}, name \in Types :
    /\ op.req[location][name].present
    /\ Trim(op.req[location][name].text) = <<>>

\* C14 as stated, a field counting as supplied when it is given with a text
\* that is not blank: when the measurement works and the body was parsed, a
\* request supplying no field is rejected without a result, and any other
\* request is answered with exactly one result per supplied field.
C14_OneResultPerSuppliedField ==
  (op.kind = "analyze" /\ op.failAt = 0 /\ op.req.bodyParsed) =>
    LET supplied == {name \in Types :
                       Channel[name].present /\ Trim(Channel[name].text) # <<>>}
    IN  IF supplied = {}
        THEN out.value.status # 200 /\ "result" \notin DOMAIN out.value
        ELSE /\ out.value.status = 200
             /\ DOMAIN out.value.result = supplied
             /\ \A name \in supplied :
                  out.value.result[name] = analyzeText(Trim(Channel[name].text), name)

\* C14, amended: a request in which some title or description, of the query
\* or of the body, is blank is rejected as a whole with the validation
\* errors; otherwise a request that is not a GET and has no parsed body is
\* answered by an internal error; otherwise a request giving neither field
\* in the channel of its method is rejected; otherwise the response holds
\* exactly one result per field given in that channel, computed from the
\* trimmed text, unless a measurement fails, which is answered by an
\* internal error.
C14_ResultsPerGivenFieldWhenAllValid ==
  op.kind = "analyze" =>
    LET given == {name \in Types : Channel[name].present}
    IN  IF SomeFieldBlank
        THEN /\ out.value.status = 400
             /\ "errors" \in DOMAIN out.value
             /\ "result" \notin DOMAIN out.value
             /\ calls = {}
        ELSE IF op.req.method # "GET" /\ ~op.req.bodyParsed
        THEN /\ out.value.status = 500
             /\ "result" \notin DOMAIN out.value
             /\ calls = {}
        ELSE IF given = {}
        THEN /\ out.value
                  = BadRequest("Please provide either a title or description parameter")
             /\ calls = {}
        ELSE IF op.failAt # 0
        THEN out.value.status = 500 /\ "result" \notin DOMAIN out.value
        ELSE /\ out.value.status = 200
             /\ DOMAIN out.value.result = given
             /\ \A name \in given :
                  out.value.result[name] = analyzeText(Trim(Channel[name].text), name)

\* A POST whose body gives only a title, with a leading space, and whose
\* query gives a description that the handler does not read: the response
\* holds the analysis of the trimmed title and nothing else.
C14_Witness ==
  /\ op.kind = "analyze"
  /\ op.req.method = "POST"
  /\ op.req.body.title = Field(<<" ", "i">>)
  /\ ~op.req.body.description.present
  /\ op.req.query.description.present
  /\ out.value.status = 200
  /\ DOMAIN out.value.result = {"title"}
  /\ out.value.result.title.characterCount = 1
  /\ out.value.result.title.truncatedText = <<"i">>

(***************************************************************************)
(* The truncation point and the shape of the result.                       *)
(***************************************************************************)
PrefixWidth(n) ==
  measureText(createContext(Profile.fontSize, Profile.fontFamily),
              SubSeq(op.text, 1, n))

\* C18: when the text is truncated and i characters are retained, i is in
\* 0..len-1, the prefix of i+1 characters is wider than maxPixels - 5, and
\* every prefix of 1..i characters is at most maxPixels - 5 wide (a prefix
\* exactly that wide is retained); so when the first character alone is
\* wider, the result is just the ellipsis.
C18_RetainedIsFirstOverBudget ==
  (Returned /\ out.value.isTruncated) =>
    LET i == Len(out.value.truncatedText) - 3
    IN  /\ i \in 0..(Len(op.text) - 1)
        /\ out.value.truncatedText = SubSeq(op.text, 1, i) \o <<".", ".", ".">>
        /\ PrefixWidth(i + 1) > (Profile.maxPixels - 5) * Sub
        /\ \A j \in 1..i : PrefixWidth(j) <= (Profile.maxPixels - 5) * Sub
        /\ PrefixWidth(1) > (Profile.maxPixels - 5) * Sub
             => out.value.truncatedText = <<".", ".", ".">>

\* A truncated text whose retained prefix is exactly maxPixels - 5 wide.
C18_Witness ==
  /\ Returned
  /\ out.value.isTruncated
  /\ Len(out.value.truncatedText) - 3 >= 1
  /\ PrefixWidth(Len(out.value.truncatedText) - 3) = (Profile.maxPixels - 5) * Sub

\* C19: a title result has neither minPixels nor isTooShort, a description
\* result has both, and maxPixels (and minPixels) are those of the profile.
C19_MinimumFieldsOnlyForDescription ==
  Returned =>
    /\ out.value.maxPixels = META_SETTINGS[op.type].maxPixels
    /\ op.type = "title" =>
         /\ out.value.maxPixels = 600
         /\ "minPixels" \notin DOMAIN out.value
         /\ "isTooShort" \notin DOMAIN out.value
    /\ op.type = "description" =>
         /\ out.value.maxPixels = 960
         /\ "minPixels" \in DOMAIN out.value
         /\ "isTooShort" \in DOMAIN out.value
         /\ out.value.minPixels = META_SETTINGS.description.minPixels
         /\ out.value.minPixels = 430

\* A returned description result with both fields, of a text also
\* analysable as a title.
C19_Witness ==
  /\ Returned
  /\ op.type = "description"
  /\ Len(op.text) = 2
  /\ DOMAIN out.value = DOMAIN analyzeText(op.text, "title") \cup {"minPixels", "isTooShort"}
  /\ out.value.minPixels = 430
  /\ out.value.maxPixels = 960

(***************************************************************************)
(* Analyses one after another and at the same time.                        *)
(***************************************************************************)
Holding(p) == task[p].pc \in {"measure", "scan"}

\* C16: an analysis that has its result, for the text and kind of an
\* analysis that returned earlier, has the same result as that one,
\* whatever was analyzed in between.
C16_SameInputSameResult ==
  \A p \in Procs :
    (/\ task[p].pc = "done"
     /\ probe # NoOp
     /\ probe.text = task[p].text
     /\ probe.type = task[p].type) => task[p].result = probe.result

\* A truncated result equal to the remembered one, after an analysis of
\* another input returned in between.
C16_Witness ==
  \E p \in Procs :
    /\ task[p].pc = "done"
    /\ probe # NoOp
    /\ probe.text = task[p].text /\ probe.type = task[p].type
    /\ probe.others
    /\ task[p].result.isTruncated
    /\ task[p].result = probe.result

\* C17: under every interleaving, two analyses never hold the same
\* context, the context an analysis holds has the font of its own profile,
\* a finished analysis has the result it has when run alone, and the
\* profile table is as it was at the start.
C17_AnalysesShareNothing ==
  /\ table = META_SETTINGS
  /\ \A p \in Procs :
       /\ Holding(p) =>
            /\ heap[task[p].ctx].fontSize = META_SETTINGS[task[p].type].fontSize
            /\ \A q \in Procs \ {p} : Holding(q) => task[q].ctx # task[p].ctx
       /\ task[p].pc = "done" => task[p].result = analyzeText(task[p].text, task[p].type)

\* One analysis has finished with a truncated title while another is in
\* the middle of the scan of a description.
C17_Witness ==
  \E p, q \in Procs :
    /\ p # q
    /\ task[p].pc = "done" /\ task[p].type = "title" /\ task[p].result.isTruncated
    /\ task[q].pc = "scan" /\ task[q].type = "description"
    /\ heap[task[q].ctx].fontSize = 13

(***************************************************************************)
(* The WordPress fetch.                                                    *)
(***************************************************************************)
\* C20 as stated: every /api/GetWebUrls request that is being served
\* eventually has its response, whatever the redirects, data, end, errors
\* and timeouts.
C20_EveryRequestIsAnswered ==
  (web.pc = "fetching") ~> (web.pc = "responded")

(***************************************************************************)
(* Truncated and too short; the steps of the scan; the failures of the     *)
(* WordPress fetch.                                                        *)
(***************************************************************************)
\* C21: a description result (profile with 0 < minPixels < maxPixels) never
\* has isTruncated and isTooShort both true, and isOptimal implies that
\* both are false.
C21_NeverTruncatedAndTooShort ==
  (Returned /\ op.type = "description") =>
    /\ 0 < Profile.minPixels /\ Profile.minPixels < Profile.maxPixels
    /\ ~(out.value.isTruncated /\ out.value.isTooShort)
    /\ out.value.isOptimal => (~out.value.isTruncated /\ ~out.value.isTooShort)

\* A description wider than maxPixels: truncated, not too short, not optimal.
C21_Witness ==
  /\ Returned
  /\ op.type = "description"
  /\ RawWidth > Profile.maxPixels * Sub
  /\ out.value.isTruncated
  /\ ~out.value.isTooShort
  /\ ~out.value.isOptimal

\* C22: at every step of the scan the index is within 0..len(text) and at
\* most len(text) prefixes have been measured, and a step either leaves
\* the loop with the index as it is or raises the index by exactly one; so
\* the scan is over after at most len(text) measurements.
C22_ScanIsBounded ==
  /\ [](\A p \in Procs :
          task[p].pc \in {"scan", "result", "done"} =>
            /\ task[p].i \in 0..Len(task[p].text)
            /\ task[p].measured \in 0..Len(task[p].text)
            /\ task[p].pc = "scan" => task[p].measured = task[p].i)
  /\ [][\A p \in Procs :
          (task[p].pc = "scan" /\ task'[p] # task[p]) =>
            \/ /\ task'[p].pc = "result"
               /\ task'[p].i = task[p].i
            \/ /\ task'[p].pc = "scan"
               /\ task'[p].i = task[p].i + 1
               /\ task'[p].measured = task[p].measured + 1]_vars

\* A scan that is over after measuring every prefix of a text of three
\* characters, two of which are retained.
C22_Witness ==
  \E p \in Procs :
    /\ task[p].pc = "done"
    /\ Len(task[p].text) = 3
    /\ task[p].measured = 3
    /\ task[p].i = 2
    /\ task[p].result.isTruncated

\* C23: while the types are gone through there is one entry per type
\* already dealt with, in the order asked for; once fetchWordPressContent
\* has returned, its list has one entry per requested type in that order,
\* an entry with an error has no data, and the endpoint has answered with
\* success = true and, for each type that is a key of the answer (every
\* type but "__proto__"), the count and error of its last entry.
C23_FailedTypeDoesNotStopTheOthers ==
  /\ web.pc = "fetching" =>
       /\ Len(web.results) = web.k - 1
       /\ \A k \in 1..Len(web.results) : web.results[k].type = web.types[k]
  /\ (web.pc = "responded" /\ "returned" \in DOMAIN web) =>
       /\ Len(web.returned) = Len(web.types)
       /\ \A k \in 1..Len(web.types) :
            /\ web.returned[k].type = web.types[k]
            /\ web.returned[k].error # "null" => web.returned[k].count = 0
       /\ web.response.status = 200
       /\ web.response.success = TRUE
       /\ DOMAIN web.response.results =
            {web.types[k] : k \in 1..Len(web.types)} \ {"__proto__"}
       /\ \A k \in 1..Len(web.types) :
            (/\ web.types[k] # "__proto__"
             /\ \A j \in (k + 1)..Len(web.types) : web.types[j] # web.types[k]) =>
              /\ web.response.results[web.types[k]].count = web.returned[k].count
              /\ web.response.results[web.types[k]].error = web.returned[k].error

\* The fetch of the first of two types timed out and the second type was
\* fetched all the same.
C23_Witness ==
  /\ web.pc = "responded"
  /\ "returned" \in DOMAIN web
  /\ web.types = <<"posts", "tags">>
  /\ web.returned[1].error = "timeout"
  /\ web.returned[2].error = "null"
  /\ web.returned[2].count = 2
  /\ web.response.success = TRUE
  /\ web.response.results["posts"].error = "timeout"

====
